---------------------------- MODULE Spec2Model ----------------------------
(***************************************************************************)
(* A model of the notation engine of grokriff: src/grokmidi.py (the card   *)
(* editor CardWriterApp, its RiffCard undo/redo history, the point and     *)
(* click editor, the MIDI timeline assembly) and the note helpers of       *)
(* src/midigimp.py.                                                        *)
(*                                                                         *)
(* Conventions.                                                            *)
(*  - A Python str that the code indexes or splits is a sequence of        *)
(*    one-character strings: "C#" is <<"C","#">>.  Codes that are only     *)
(*    looked up (duration codes) are TLA+ strings.                         *)
(*  - A Python list of notes is a cell of `heap`, named by its address, so *)
(*    that two dicts that share one list (dict.copy() is shallow) share    *)
(*    one cell.  A dict is a record; dict.update is Update.                *)
(*  - Beats are counted in thousandths (get_duration('8s') = .5 is 500),   *)
(*    so the strum delay 0.03 is 30.                                       *)
(*  - Sequences are 1-based: Python index i is i+1 here.                   *)
(***************************************************************************)
EXTENDS Integers, Sequences, FiniteSets, TLC

\* ------------------------------------------------------------------------
\*  Strings
\* ------------------------------------------------------------------------

\* str.upper(), on the characters the inputs use
Upper(ch) ==
    CASE ch = "a" -> "A" [] ch = "b" -> "B" [] ch = "c" -> "C"
      [] ch = "d" -> "D" [] ch = "e" -> "E" [] ch = "f" -> "F"
      [] ch = "g" -> "G" [] ch = "r" -> "R" [] ch = "k" -> "K"
      [] ch = "s" -> "S" [] ch = "h" -> "H" [] ch = "x" -> "X"
      [] OTHER -> ch

\* str.lower(), on the characters the inputs use
Lower(ch) ==
    CASE ch = "A" -> "a" [] ch = "B" -> "b" [] ch = "C" -> "c"
      [] ch = "D" -> "d" [] ch = "E" -> "e" [] ch = "F" -> "f"
      [] ch = "G" -> "g" [] ch = "R" -> "r" [] ch = "K" -> "k"
      [] ch = "S" -> "s" [] ch = "H" -> "h" [] ch = "X" -> "x"
      [] OTHER -> ch

UpperStr(s) == [i \in 1..Len(s) |-> Upper(s[i])]

LowerStr(s) == [i \in 1..Len(s) |-> Lower(s[i])]

\* str.split(sep) for a one-character separator: every separator cuts, empty
\* pieces are kept ("C+" gives ["C", ""])
RECURSIVE SplitOn(_, _, _, _)
SplitOn(s, sep, i, cur) ==
    IF i > Len(s) THEN <<cur>>
    ELSE IF s[i] = sep THEN <<cur>> \o SplitOn(s, sep, i + 1, <<>>)
    ELSE SplitOn(s, sep, i + 1, Append(cur, s[i]))

\* note_group.split('+')
SplitPlus(ng) == SplitOn(ng, "+", 1, <<>>)

\* str.split() without argument: cut at runs of blanks, no empty pieces
SplitBlank(txt) ==
    LET pieces == SplitOn(txt, " ", 1, <<>>)
        keep   == {i \in 1..Len(pieces) : pieces[i] # <<>>}
        RECURSIVE Pick(_)
        Pick(i) == IF i > Len(pieces) THEN <<>>
                   ELSE IF i \in keep THEN <<pieces[i]>> \o Pick(i + 1)
                   ELSE Pick(i + 1)
    IN Pick(1)

\* str.strip(): the blanks at both ends go
RECURSIVE Strip(_)
Strip(s) ==
    IF s = <<>> THEN s
    ELSE IF s[1] = " " THEN Strip(Tail(s))
    ELSE IF s[Len(s)] = " " THEN Strip(SubSeq(s, 1, Len(s) - 1))
    ELSE s

\* ' '.join(notes)
RECURSIVE JoinBlank(_)
JoinBlank(notes) ==
    IF notes = <<>> THEN <<>>
    ELSE IF Len(notes) = 1 THEN notes[1]
    ELSE notes[1] \o <<" ">> \o JoinBlank(Tail(notes))

\* ------------------------------------------------------------------------
\*  Note helpers (src/grokmidi.py)
\* ------------------------------------------------------------------------

NOTE_MAP == ("C" :> 0) @@ ("D" :> 2) @@ ("E" :> 4) @@ ("F" :> 5)
            @@ ("G" :> 7) @@ ("A" :> 9) @@ ("B" :> 11)

ACC_MAP == ("#" :> 1) @@ ("B" :> -1) @@ ("b" :> -1)

DRUM_MAP == ("K" :> 35) @@ ("S" :> 38) @@ ("H" :> 42)

\* Python's None, as a pitch
None == -1

\* the call raised (KeyError, IndexError, ValueError); no pitch and no staff
\* position of the model is this low
Raised == -1000

\* a plausible slip: the accidental is added without the reduction modulo 12
midi_from_str_nowrap(note_str, c_scale) ==
    IF UpperStr(note_str) = <<"R">> THEN None
    ELSE IF note_str = <<>> THEN Raised
    ELSE IF Upper(note_str[1]) \in DOMAIN DRUM_MAP
         THEN DRUM_MAP[Upper(note_str[1])]
    ELSE LET letter == Upper(note_str[1])
             mod    == LowerStr(Tail(note_str))
         IN  IF letter \notin DOMAIN NOTE_MAP THEN Raised
             ELSE c_scale + NOTE_MAP[letter]
                  + (IF mod # <<>> /\ mod[1] \in DOMAIN ACC_MAP
                     THEN ACC_MAP[mod[1]] ELSE 0)

midi_from_str(note_str, c_scale) ==
    IF UpperStr(note_str) = <<"R">> THEN None
    ELSE IF note_str = <<>> THEN Raised            \* note_str[0]: IndexError
    ELSE IF Upper(note_str[1]) \in DOMAIN DRUM_MAP
         THEN DRUM_MAP[Upper(note_str[1])]
    ELSE LET letter == Upper(note_str[1])
             mod    == LowerStr(Tail(note_str))
         IN  IF letter \notin DOMAIN NOTE_MAP THEN Raised   \* KeyError
             ELSE LET base0 == NOTE_MAP[letter]
                      base1 == IF mod # <<>> /\ mod[1] \in DOMAIN ACC_MAP
                               THEN base0 + ACC_MAP[mod[1]] ELSE base0
                  IN  c_scale + (base1 % 12)

staff_pos(letter, c_scale) ==
    IF letter \in DOMAIN DRUM_MAP THEN 6
    ELSE IF Upper(letter) \notin DOMAIN NOTE_MAP THEN Raised   \* KeyError
    ELSE NOTE_MAP[Upper(letter)] + ((c_scale \div 12) - 4) * 7

accidental_sym(note_str) ==
    IF Len(note_str) > 1 /\ note_str[2] \in {"#", "B", "b"}
    THEN (IF note_str[2] = "#" THEN "#" ELSE "b")
    ELSE ""

\* get_duration with the whole note as the default
get_duration_default_whole(val) ==
    CASE val = "1s"  -> 4000
      [] val = "2"   -> 2000
      [] val = "4s"  -> 1000
      [] val = "8s"  -> 500
      [] val = "16s" -> 250
      [] val = "32s" -> 125
      [] OTHER       -> 4000

\* beats in thousandths
get_duration(val) ==
    CASE val = "1s"  -> 4000
      [] val = "2"   -> 2000
      [] val = "4s"  -> 1000
      [] val = "8s"  -> 500
      [] val = "16s" -> 250
      [] val = "32s" -> 125
      [] OTHER       -> 1000

\* ------------------------------------------------------------------------
\*  Note helpers (src/midigimp.py)
\* ------------------------------------------------------------------------

get_midi_note(note_str, octave) ==
    IF UpperStr(note_str) = <<"R">> THEN None
    ELSE IF note_str = <<>> THEN Raised            \* note_str[0]: IndexError
    ELSE LET letter   == Upper(note_str[1])
             modifier == LowerStr(Tail(note_str))
         IN  IF letter \notin {"A", "B", "C", "D", "E", "F", "G"} THEN Raised
             ELSE IF modifier # <<>>
                     /\ modifier \notin {<<"#">>, <<"b">>, <<"%">>} THEN Raised
             ELSE LET base0 == NOTE_MAP[letter]
                      base1 == IF modifier = <<"#">> THEN base0 + 1
                               ELSE IF modifier \in {<<"b">>, <<"%">>}
                                    THEN base0 - 1
                               ELSE base0
                  IN  (octave + 1) * 12 + (base1 % 12)

pos_map == ("C" :> 0) @@ ("D" :> 1) @@ ("E" :> 2) @@ ("F" :> 3)
           @@ ("G" :> 4) @@ ("A" :> 5) @@ ("B" :> 6)

get_staff_position(letter, octave) ==
    IF letter \notin DOMAIN pos_map THEN Raised    \* KeyError
    ELSE pos_map[letter] + (octave - 4) * 7

\* ------------------------------------------------------------------------
\*  Bounds and inputs
\* ------------------------------------------------------------------------

\* the tracks CardWriterApp.__init__ builds
InitTracks == 4

\* the cards TrackRow.__init__ builds
CardsPerTrack == 3

\* handlers run in one behaviour; a card's undo and redo, which only move
\* between the snapshots the card has, are not counted
MaxOps == 3

\* point-and-click editors open at once
MaxEditors == 1

\* tracks the application gets to have, the added ones included
MaxTracks == 5

\* riffs MidiWriterApp's list gets to hold
MaxRiffs == 2

\* handlers of MidiWriterApp run in one behaviour
MaxGimpOps == 7

\* the strum delay 0.03, in thousandths of a beat
StrumDelay == 30

\* Combobox values of TrackRow.inst_combo, by program number
InstOptions == <<0, 27, 33, 40, 35>>

\* Combobox values of TrackRow.c_combo: f"C{i} ({12*i})" for i in 1..8
COptions == {12 * i : i \in 1..8}

\* the cards the user works on; the other cards change through the
\* application's operations only
UserCards == {<<1, 1>>}

TxtNoteRestChord == <<"C", " ", "R", " ", "E", "+", "G">>

TxtChordRest == <<"c", "+", "E", "+", "G", " ", " ", "R">>

\* a text whose second element has a letter that is no note, no drum, no rest
TxtUnknownLetter == <<"C", " ", "X">>

\* what the user leaves in a card's entry and Strum checkbox before Save
SaveInputs == {<< <<>>, FALSE >>, <<TxtNoteRestChord, FALSE>>, <<TxtChordRest, TRUE>>}

\* a text whose element is a chord with R as a subnote
TxtRestInChord == <<"C", "+", "R">>

\* texts the entry takes as they are typed, well formed or not
EntryInputs == {TxtNoteRestChord, TxtUnknownLetter, TxtRestInChord}

\* results of grokify_riff(): 4 to 8 elements, each a rest, a chord of
\* CHORD_LIB or a letter with an optional accidental
GrokRiffs == {<<"R", " ", "D", "+", "F", "#", "+", "A", " ", "B", "b", " ", "F">>}

\* clicks in the editor's axes: (round(xdata), round(ydata))
ClickXs == {1}

ClickYs == {1, 7}

\* selections of a track's C-Scale combobox
CScaleInputs == {72}

\* ------------------------------------------------------------------------
\*  State
\* ------------------------------------------------------------------------

VARIABLES
    tracks,        \* CardWriterApp.tracks: per TrackRow, inst_combo and c_combo
    cards,         \* the RiffCards, by <<track, card>> (1-based)
    song_data,     \* CardWriterApp.song_data
    heap,          \* the note lists, by address
    editors,       \* the open P2PStaffEditor windows
    global_bpm,    \* CardWriterApp.global_bpm
    current_card,  \* CardWriterApp.current_card (<<>> is None)
    midi,          \* what the last export_midi computed and wrote
    last,          \* the handler that ran last
    steps,         \* counted handlers run so far
    call,          \* the last call of a note helper, with its result
    player,        \* the preview thread running _play_midi
    gimp           \* the MidiWriterApp of midigimp.py

vars == <<tracks, cards, song_data, heap, editors, global_bpm, current_card,
          midi, last, steps, call, player, gimp>>

\* dict.update(e) on dict d
Update(d, e) ==
    [k \in (DOMAIN d) \cup (DOMAIN e) |-> IF k \in DOMAIN e THEN e[k] ELSE d[k]]

CardIds == (1..Len(tracks)) \X (1..CardsPerTrack)

\* the address of the list RiffCard.__init__ gives the card's riff
InitAddr(c) == (c[1] - 1) * CardsPerTrack + c[2]

\* RiffCard.__init__
NewCard(c) ==
    [riff       |-> [notes |-> InitAddr(c), duration |-> "4s", c_scale |-> 60,
                     strum |-> FALSE],
     history    |-> <<>>,
     redo_stack |-> <<>>,
     entry      |-> <<>>,
     strum_var  |-> FALSE]

\* TrackRow.__init__: inst_combo.current(track_idx % 5), c_combo.current(3)
NewTrack(t) ==
    [inst |-> InstOptions[((t - 1) % 5) + 1], c_combo |-> 12 * 4]

NoCall == [fn |-> "none"]

NoMidi == [written |-> FALSE, events |-> <<>>, time_pos |-> <<>>]

\* the notes added to a MIDIFile so far, the time position, and whether the
\* loop was left by an exception
NoNotes == [notes |-> <<>>, time_pos |-> 0, raised |-> FALSE]

\* no thread runs _play_preview (self.preview_thread is None); i counts the
\* riffs the thread's loop has taken, out is what it has added
NoPreview == [alive |-> FALSE, i |-> 0, out |-> NoNotes]

\* MidiWriterApp.__init__: no riffs, editing_index None, the input frame not
\* packed.  Each riff carries the number of the save that made it (made
\* counts them), selected is that of the riff edit_riff chose last, and op,
\* ok tell the handler that ran last and whether it went through, read is
\* the text that handler took from notes_entry.  song_list is the list box,
\* exported the notes the last export_midi added, preview the thread running
\* _play_preview, played the notes the last thread that
\* ended had added
NewGimp ==
    [riffs |-> <<>>, song_list |-> <<>>, editing_index |-> None,
     form |-> "hidden", duration |-> "4s", octave |-> 4, instrument |-> 0,
     made |-> 0, selected |-> 0, op |-> "init", ok |-> TRUE, read |-> <<>>,
     exported |-> NoNotes, preview |-> NoPreview, played |-> NoNotes]

\* no preview thread has been started
NoPlayer == [running |-> FALSE, done |-> FALSE]

Init ==
    /\ tracks = [t \in 1..InitTracks |-> NewTrack(t)]
    /\ cards = [c \in (1..InitTracks) \X (1..CardsPerTrack) |-> NewCard(c)]
    \* TrackRow.__init__: app.song_data[track_idx][i] = card.riff, the same dict
    /\ song_data = [t \in 1..InitTracks |->
                       [i \in 1..CardsPerTrack |-> [alias |-> TRUE]]]
    /\ heap = [a \in 1..(InitTracks * CardsPerTrack) |-> <<>>]
    /\ editors = <<>>
    /\ global_bpm = 120
    /\ current_card = <<>>
    /\ midi = NoMidi
    /\ last = [op |-> "init", card |-> <<>>, noop |-> FALSE, hist |-> 0, redo |-> 0,
               was |-> <<>>]
    /\ steps = 0
    /\ call = NoCall
    /\ player = NoPlayer
    /\ gimp = NewGimp

\* ------------------------------------------------------------------------
\*  RiffCard: history
\* ------------------------------------------------------------------------

\* a plausible slip: the redo stack is not cleared
save_state_keeps_redo(cd) ==
    LET state == Update(cd.riff, [text |-> cd.entry, strum |-> cd.strum_var])
    IN  [cd EXCEPT !.history = Append(@, state)]

\* RiffCard.save_state on card record cd
save_state(cd) ==
    LET state == Update(cd.riff, [text |-> cd.entry, strum |-> cd.strum_var])
    IN  [cd EXCEPT !.history = Append(@, state), !.redo_stack = <<>>]

\* a plausible slip: the guard lets the last entry be popped
card_undo_pops_baseline(cd) ==
    IF Len(cd.history) >= 1
    THEN LET popped == cd.history[Len(cd.history)]
             rest   == SubSeq(cd.history, 1, Len(cd.history) - 1)
         IN  IF rest = <<>>
             THEN [cd EXCEPT !.redo_stack = Append(@, popped), !.history = rest]
             ELSE [cd EXCEPT !.redo_stack = Append(@, popped),
                             !.history = rest,
                             !.riff = Update(@, rest[Len(rest)]),
                             !.entry = rest[Len(rest)].text,
                             !.strum_var = rest[Len(rest)].strum]
    ELSE cd

\* a plausible slip: the entry popped is restored, not the one below it
card_undo_restores_popped(cd) ==
    IF Len(cd.history) > 1
    THEN LET popped == cd.history[Len(cd.history)]
         IN  [cd EXCEPT !.redo_stack = Append(@, popped),
                        !.history = SubSeq(@, 1, Len(@) - 1),
                        !.riff = Update(@, popped),
                        !.entry = popped.text,
                        !.strum_var = popped.strum]
    ELSE cd

\* RiffCard.undo on card record cd
card_undo(cd) ==
    IF Len(cd.history) > 1
    THEN LET popped == cd.history[Len(cd.history)]
             rest   == SubSeq(cd.history, 1, Len(cd.history) - 1)
             prev   == rest[Len(rest)]
         IN  [cd EXCEPT !.redo_stack = Append(@, popped),
                        !.history = rest,
                        !.riff = Update(@, prev),
                        !.entry = prev.text,
                        !.strum_var = prev.strum]
    ELSE cd

\* RiffCard.redo on card record cd
card_redo(cd) ==
    IF cd.redo_stack # <<>>
    THEN LET state == cd.redo_stack[Len(cd.redo_stack)]
         IN  [cd EXCEPT !.redo_stack = SubSeq(@, 1, Len(@) - 1),
                        !.history = Append(@, state),
                        !.riff = Update(@, state),
                        !.entry = state.text,
                        !.strum_var = state.strum]
    ELSE cd

\* the record of a handler run: which, on which card, whether it returned
\* without doing anything, how long the card's stacks were before it and
\* what the card's phrase was before it
Ran(op, c, noop) ==
    last' = [op   |-> op, card |-> c, noop |-> noop,
             hist |-> IF c \in DOMAIN cards THEN Len(cards[c].history) ELSE 0,
             redo |-> IF c \in DOMAIN cards THEN Len(cards[c].redo_stack) ELSE 0,
             was  |-> IF c \in DOMAIN cards
                      THEN [notes    |-> heap[cards[c].riff.notes],
                            duration |-> cards[c].riff.duration,
                            c_scale  |-> cards[c].riff.c_scale,
                            strum    |-> cards[c].riff.strum]
                      ELSE <<>>]

undo(c) ==
    /\ cards' = [cards EXCEPT ![c] = card_undo(@)]
    /\ Ran("undo", c, ~(Len(cards[c].history) > 1))
    /\ UNCHANGED <<tracks, song_data, heap, editors, global_bpm, current_card,
                   midi, call>>

redo(c) ==
    /\ cards' = [cards EXCEPT ![c] = card_redo(@)]
    /\ Ran("redo", c, cards[c].redo_stack = <<>>)
    /\ UNCHANGED <<tracks, song_data, heap, editors, global_bpm, current_card,
                   midi, call>>

\* a plausible slip: the command undoes on the card that was edited last
app_undo_last_card ==
    /\ IF last.card \in DOMAIN cards
       THEN cards' = [cards EXCEPT ![last.card] = card_undo(@)]
       ELSE UNCHANGED cards
    /\ Ran("app_undo", current_card, current_card = <<>>)
    /\ UNCHANGED <<tracks, song_data, heap, editors, global_bpm, current_card,
                   midi, call>>

\* CardWriterApp.undo
app_undo ==
    /\ IF current_card # <<>>
       THEN cards' = [cards EXCEPT ![current_card] = card_undo(@)]
       ELSE UNCHANGED cards
    /\ Ran("app_undo", current_card, current_card = <<>>)
    /\ UNCHANGED <<tracks, song_data, heap, editors, global_bpm, current_card,
                   midi, call>>

\* CardWriterApp.redo
app_redo ==
    /\ IF current_card # <<>>
       THEN cards' = [cards EXCEPT ![current_card] = card_redo(@)]
       ELSE UNCHANGED cards
    /\ Ran("app_redo", current_card, current_card = <<>>)
    /\ UNCHANGED <<tracks, song_data, heap, editors, global_bpm, current_card,
                   midi, call>>

\* ------------------------------------------------------------------------
\*  RiffCard: drawing, saving, editing
\* ------------------------------------------------------------------------

\* whether RiffCard.draw_staff() raises on these notes (s[0] of an empty
\* subnote, NOTE_MAP[letter] of an unknown letter); it changes no state
draw_staff_raises(notes, is_drum, c_scale) ==
    \E k \in 1..Len(notes) :
        /\ UpperStr(notes[k]) # <<"R">>
        /\ LET subs == SplitPlus(notes[k])
           IN  \E j \in 1..Len(subs) :
                   \/ subs[j] = <<>>
                   \/ ~is_drum /\ staff_pos(Upper(subs[j][1]), c_scale) = Raised

\* whether P2PStaffEditor.draw_staff() raises on these notes
editor_draw_raises(notes, c_scale) == draw_staff_raises(notes, FALSE, c_scale)

\* is_drum of RiffCard.draw_staff: the instrument is 'Acoustic Bass Drum (35)'
IsDrum(t) == tracks[t].inst = 35

\* the body of RiffCard.save_riff on card record cd; a is the address of the
\* list that txt.split() builds
save_riff_card(cd, a) ==
    LET cd1   == save_state(cd)
        notes == SplitBlank(cd.entry)
    IN  IF notes = <<>>                       \* if not txt: return
        THEN [card |-> cd1, saved |-> FALSE, notes |-> <<>>]
        ELSE [card  |-> [cd1 EXCEPT !.riff = Update(@, [notes    |-> a,
                                                       duration |-> "4s",
                                                       strum    |-> cd.strum_var])],
              saved |-> TRUE,
              notes |-> notes]

\* RiffCard.save_riff for card c whose widgets hold cd's entry and strum_var
commit_save(c, cd) ==
    LET r == save_riff_card(cd, Len(heap) + 1)
    IN  /\ cards' = [cards EXCEPT ![c] = r.card]
        /\ heap' = IF r.saved THEN Append(heap, r.notes) ELSE heap
        \* self.app.song_data[self.track][self.idx] = self.riff.copy()
        \* (IndexError when song_data has no such row or element: the
        \* handler ends there, the riff already changed)
        /\ song_data' = IF /\ r.saved
                           /\ c[1] <= Len(song_data)
                           /\ c[2] <= Len(song_data[c[1]])
                        THEN [song_data EXCEPT ![c[1]][c[2]] =
                                 [alias |-> FALSE, dict |-> r.card.riff]]
                        ELSE song_data

\* the user puts txt in the entry, sets the Strum checkbox to sv and presses
\* Save (or Return): RiffCard.save_riff
save_riff(c, txt, sv) ==
    /\ commit_save(c, [cards[c] EXCEPT !.entry = txt, !.strum_var = sv])
    /\ Ran("save_riff", c, SplitBlank(txt) = <<>>)
    /\ UNCHANGED <<tracks, editors, global_bpm, current_card, midi, call>>

\* RiffCard.grokify, where grokify_riff() returned riff
grokify(c, riff) ==
    /\ commit_save(c, [save_state(cards[c]) EXCEPT !.entry = riff])
    /\ Ran("grokify", c, FALSE)
    /\ UNCHANGED <<tracks, editors, global_bpm, current_card, midi, call>>

\* a plausible slip: self.notes = card.riff['notes'], without the copy
new_editor_shared(c, cd, a) ==
    [card |-> c, notes |-> cd.riff.notes,
     has_done |-> ~editor_draw_raises(heap[cd.riff.notes], cd.riff.c_scale)]

\* P2PStaffEditor.__init__: self.notes = card.riff['notes'].copy() is the new
\* list at address a; the Done button is packed after draw_staff()
new_editor(c, cd, a) ==
    [card |-> c, notes |-> a,
     has_done |-> ~editor_draw_raises(heap[cd.riff.notes], cd.riff.c_scale)]

\* RiffCard.p2p_edit
p2p_edit(c) ==
    /\ Len(editors) < MaxEditors
    /\ LET cd1 == save_state(cards[c])
           a   == Len(heap) + 1
       IN  /\ cards' = [cards EXCEPT ![c] = cd1]
           /\ heap' = Append(heap, heap[cd1.riff.notes])
           /\ editors' = Append(editors, new_editor(c, cd1, a))
    /\ Ran("p2p_edit", c, FALSE)
    /\ UNCHANGED <<tracks, song_data, global_bpm, current_card, midi, call>>

\* the letter P2PStaffEditor.on_click derives from y
click_letter(y) ==
    LET rel  == y - 6
        step == rel % 7
    IN  <<"C", "D", "E", "F", "G", "A", "B">>[step + 1]

\* self.notes[x] = note if x < len(self.notes) else self.notes.append(note)
click_notes(notes, x, y) ==
    IF x < Len(notes) THEN [notes EXCEPT ![x + 1] = <<click_letter(y)>>]
    ELSE Append(notes, <<click_letter(y)>>)

\* P2PStaffEditor.on_click of editor e, for a click inside the axes
on_click(e, x, y) ==
    /\ e \in 1..Len(editors)
    /\ IF y < 2 \/ y > 10
       THEN UNCHANGED heap
       ELSE heap' = [heap EXCEPT ![editors[e].notes] = click_notes(@, x, y)]
    /\ Ran("on_click", editors[e].card, y < 2 \/ y > 10)
    /\ UNCHANGED <<tracks, cards, song_data, editors, global_bpm, current_card,
                   midi, call>>

\* P2PStaffEditor.done of editor e
done(e) ==
    /\ e \in 1..Len(editors)
    /\ editors[e].has_done
    /\ LET ed == editors[e]
           c  == ed.card
       IN  /\ cards' = [cards EXCEPT ![c].riff.notes = ed.notes,
                                     ![c].entry = JoinBlank(heap[ed.notes])]
           \* self.destroy() is not reached when card.draw_staff() raises
           /\ editors' = IF draw_staff_raises(heap[ed.notes], IsDrum(c[1]),
                                              cards[c].riff.c_scale)
                         THEN editors
                         ELSE SubSeq(editors, 1, e - 1)
                              \o SubSeq(editors, e + 1, Len(editors))
           /\ Ran("done", c, FALSE)
    /\ UNCHANGED <<tracks, song_data, heap, global_bpm, current_card, midi, call>>

\* ------------------------------------------------------------------------
\*  TrackRow
\* ------------------------------------------------------------------------

\* the cards of track t that update_c_scale reaches: it stops at the first
\* card whose draw_staff() raises, after setting that card's c_scale
RECURSIVE reached_cards(_, _)
reached_cards(t, i) ==
    IF i > CardsPerTrack THEN {}
    ELSE {i} \cup
         (IF draw_staff_raises(heap[cards[<<t, i>>].riff.notes], IsDrum(t),
                               cards[<<t, i>>].riff.c_scale)
          THEN {} ELSE reached_cards(t, i + 1))

\* TrackRow.update_c_scale after the user selected c_midi in c_combo
update_c_scale(t, c_midi) ==
    /\ tracks' = [tracks EXCEPT ![t].c_combo = c_midi]
    /\ cards' = [c \in DOMAIN cards |->
                    IF c[1] = t /\ c[2] \in reached_cards(t, 1)
                    THEN [cards[c] EXCEPT !.riff.c_scale = c_midi]
                    ELSE cards[c]]
    /\ Ran("update_c_scale", <<t, 0>>, FALSE)
    /\ UNCHANGED <<song_data, heap, editors, global_bpm, current_card, midi, call>>

\* ------------------------------------------------------------------------
\*  CardWriterApp: add track, new, open
\* ------------------------------------------------------------------------

\* the cards of the new track t that TrackRow.__init__ gets to put in
\* song_data row: app.song_data[track_idx][i] = card.riff raises IndexError
\* at the first i the row does not have
\* (a card of a TrackRow that never joins self.tracks is no card of the
\* model: its riff, which nothing can change, stands in song_data as a dict
\* of its own, its list being the cell base+i)
RECURSIVE aliased_row(_, _, _, _)
aliased_row(row, ok, base, i) ==
    IF i > CardsPerTrack \/ i > Len(row) THEN row
    ELSE aliased_row(
             [row EXCEPT ![i] =
                 IF ok THEN [alias |-> TRUE]
                 ELSE [alias |-> FALSE,
                       dict  |-> [notes |-> base + i, duration |-> "4s",
                                  c_scale |-> 60, strum |-> FALSE]]],
             ok, base, i + 1)

\* CardWriterApp.add_new_track: song_data gets a row of three fresh dicts, and
\* add_track(len(self.tracks)) builds the TrackRow, whose cards replace the
\* dicts of song_data[idx]; the row is appended to self.tracks only when
\* TrackRow.__init__ returns.  The new cells are base+1.. for the cards' lists
\* and base+CardsPerTrack+1.. for the lists of the appended dicts.
add_new_track ==
    LET base == Len(heap)
        t    == Len(tracks) + 1
        sd1  == Append(song_data,
                       [i \in 1..CardsPerTrack |->
                           [alias |-> FALSE,
                            dict  |-> [notes |-> base + CardsPerTrack + i,
                                       duration |-> "4s", c_scale |-> 60,
                                       strum |-> FALSE]]])
        ok   == t <= Len(sd1) /\ Len(sd1[t]) >= CardsPerTrack
    IN  /\ Len(tracks) < MaxTracks
        /\ heap' = heap \o [a \in 1..(2 * CardsPerTrack) |-> <<>>]
        /\ song_data' = IF t > Len(sd1) THEN sd1        \* IndexError
                        ELSE [sd1 EXCEPT ![t] = aliased_row(@, ok, base, 1)]
        /\ tracks' = IF ok THEN Append(tracks, NewTrack(t)) ELSE tracks
        /\ cards' = IF ok
                    THEN [c \in (DOMAIN cards) \cup ({t} \X (1..CardsPerTrack)) |->
                             IF c \in DOMAIN cards THEN cards[c]
                             ELSE [NewCard(c) EXCEPT !.riff.notes = base + c[2]]]
                    ELSE cards
        /\ Ran("add_new_track", <<>>, ~ok)
        /\ UNCHANGED <<editors, global_bpm, current_card, midi, call>>

\* CardWriterApp.new_song after the user confirmed: the fresh song_data holds
\* InitTracks tracks, whose lists are the new cells base+1 ..; the loop stops
\* with IndexError at the first track beyond them
new_song ==
    LET base == Len(heap)
        fresh(c) == [notes |-> base + InitAddr(c), duration |-> "4s",
                     c_scale |-> 60, strum |-> FALSE]
    IN  /\ song_data' = [t \in 1..InitTracks |->
                            [i \in 1..CardsPerTrack |->
                                [alias |-> FALSE, dict |-> fresh(<<t, i>>)]]]
        /\ heap' = heap \o [a \in 1..(InitTracks * CardsPerTrack) |-> <<>>]
        /\ cards' = [c \in DOMAIN cards |->
                        IF c[1] <= InitTracks
                        THEN [cards[c] EXCEPT !.riff = Update(@, fresh(c)),
                                              !.entry = <<>>,
                                              !.history = <<>>,
                                              !.redo_stack = <<>>]
                        ELSE cards[c]]
        /\ Ran("new_song", <<>>, FALSE)
        /\ UNCHANGED <<tracks, editors, global_bpm, current_card, midi, call>>

\* the cells json.load builds for the phrases of doc's tracks before track t
RECURSIVE doc_offset(_, _)
doc_offset(doc, t) ==
    IF t <= 1 THEN 0 ELSE doc_offset(doc, t - 1) + Len(doc.tracks[t - 1])

\* the lists json.load builds, one per phrase in reading order
RECURSIVE doc_lists(_, _)
doc_lists(doc, t) ==
    IF t > Len(doc.tracks) THEN <<>>
    ELSE [i \in 1..Len(doc.tracks[t]) |->
             IF "notes" \in DOMAIN doc.tracks[t][i]
             THEN doc.tracks[t][i].notes ELSE <<>>]
         \o doc_lists(doc, t + 1)

\* data['tracks'] as json.load builds it, its lists being the cells base+1 ..
loaded_song(doc, base) ==
    [t \in 1..Len(doc.tracks) |->
        [i \in 1..Len(doc.tracks[t]) |->
            LET p == doc.tracks[t][i]
            IN  [alias |-> FALSE,
                 dict  |-> IF "notes" \in DOMAIN p
                           THEN Update(p, [notes |-> base + doc_offset(doc, t) + i])
                           ELSE p]]]

\* open_song's statements for card <<t, i>>, on S = [tracks, cards, failed];
\* sd is the new song_data and hp the new heap
open_card(S, sd, hp, t, i) ==
    IF S.failed THEN S
    ELSE IF i > Len(sd[t]) THEN [S EXCEPT !.failed = TRUE]   \* IndexError
    ELSE LET d   == sd[t][i].dict
             c   == <<t, i>>
             cd1 == [S.cards[c] EXCEPT !.riff = Update(@, d), !.entry = <<>>]
         IN  IF "notes" \notin DOMAIN d                       \* KeyError
             THEN [S EXCEPT !.cards[c] = cd1, !.failed = TRUE]
             ELSE LET cd2 == [cd1 EXCEPT
                                 !.entry = JoinBlank(hp[d.notes]),
                                 !.strum_var = IF "strum" \in DOMAIN d
                                               THEN d.strum ELSE FALSE,
                                 !.history = <<>>,
                                 !.redo_stack = <<>>]
                  IN  [S EXCEPT !.cards[c] = cd2,
                                !.failed = draw_staff_raises(
                                               hp[cd2.riff.notes],
                                               S.tracks[t].inst = 35,
                                               cd2.riff.c_scale)]

\* open_song's statements for track t before its cards
open_track(S, sd, t) ==
    IF S.failed THEN S
    ELSE IF t > Len(sd) \/ Len(sd[t]) = 0                     \* IndexError
    THEN [S EXCEPT !.failed = TRUE]
    ELSE LET first == sd[t][1].dict
             prog  == IF "instrument" \in DOMAIN first
                      THEN first.instrument ELSE S.tracks[t].inst
             match == IF \E k \in 1..Len(InstOptions) : InstOptions[k] = prog
                      THEN prog ELSE InstOptions[1]
             S1    == [S EXCEPT !.tracks[t].inst = match]
         IN  IF "c_scale" \notin DOMAIN first                 \* KeyError
             THEN [S1 EXCEPT !.failed = TRUE]
             ELSE [S1 EXCEPT !.tracks[t].c_combo =
                               IF first.c_scale \in COptions
                               THEN first.c_scale ELSE 60]

\* open_song's loops from card <<t, i>> on (i = 0: the head of track t)
RECURSIVE open_from(_, _, _, _, _)
open_from(S, sd, hp, t, i) ==
    IF t > Len(S.tracks) THEN S
    ELSE IF i = 0 THEN open_from(open_track(S, sd, t), sd, hp, t, 1)
    ELSE IF i > CardsPerTrack THEN open_from(S, sd, hp, t + 1, 0)
    ELSE open_from(open_card(S, sd, hp, t, i), sd, hp, t, i + 1)

\* CardWriterApp.open_song, the user having chosen a file that holds doc
open_song(doc) ==
    LET sd == loaded_song(doc, Len(heap))
        hp == heap \o doc_lists(doc, 1)
        S  == open_from([tracks |-> tracks, cards |-> cards, failed |-> FALSE],
                        sd, hp, 1, 0)
    IN  /\ song_data' = sd
        /\ heap' = hp
        /\ global_bpm' = IF "bpm" \in DOMAIN doc THEN doc.bpm ELSE 120
        /\ tracks' = S.tracks
        /\ cards' = S.cards
        /\ Ran("open_song", <<>>, FALSE)
        /\ UNCHANGED <<editors, current_card, midi, call>>

\* ------------------------------------------------------------------------
\*  CardWriterApp: timeline assembly (export_midi)
\* ------------------------------------------------------------------------

\* the midi.addNote calls of one element ng of a riff, at cursor time_pos;
\* card, token and sub tell where an event comes from (0-based, as the
\* code's indices)
token_events(t_idx, prog, c_scale, ng, time_pos, dur, delay, i, k) ==
    LET subs    == SplitPlus(ng)
        pitches == [j \in 1..Len(subs) |-> midi_from_str(subs[j], c_scale)]
        ev(j)   == [track    |-> t_idx,
                    channel  |-> IF prog = 35 THEN 9 ELSE 0,
                    pitch    |-> pitches[j],
                    time     |-> time_pos + delay * (j - 1),
                    duration |-> dur,
                    volume   |-> 100,
                    card     |-> i,
                    token    |-> k,
                    sub      |-> j - 1]
    IN  [raised |-> \E j \in 1..Len(subs) : pitches[j] = Raised,
         events |-> SelectSeq([j \in 1..Len(subs) |-> ev(j)],
                              LAMBDA e : e.pitch # None)]

\* riff_timeline with the cursor advanced once per subnote of a token
RECURSIVE riff_timeline_per_subnote(_, _, _, _, _, _, _, _, _)
riff_timeline_per_subnote(A, t_idx, prog, c_scale, notes, dur, delay, i, k) ==
    IF A.raised \/ k > Len(notes) THEN A
    ELSE IF UpperStr(notes[k]) = <<"R">>
    THEN riff_timeline_per_subnote([A EXCEPT !.time_pos = @ + dur],
                       t_idx, prog, c_scale, notes, dur, delay, i, k + 1)
    ELSE LET te == token_events(t_idx, prog, c_scale, notes[k], A.time_pos,
                                dur, delay, i, k - 1)
         IN  IF te.raised THEN [A EXCEPT !.raised = TRUE]
             ELSE riff_timeline_per_subnote(
                      [A EXCEPT !.events = @ \o te.events,
                                !.time_pos = @ + dur * Len(SplitPlus(notes[k]))],
                      t_idx, prog, c_scale, notes, dur, delay, i, k + 1)

\* the loop over riff['notes'] from element k on; A = [events, time_pos, raised]
RECURSIVE riff_timeline(_, _, _, _, _, _, _, _, _)
riff_timeline(A, t_idx, prog, c_scale, notes, dur, delay, i, k) ==
    IF A.raised \/ k > Len(notes) THEN A
    ELSE IF UpperStr(notes[k]) = <<"R">>
    THEN riff_timeline([A EXCEPT !.time_pos = @ + dur],
                       t_idx, prog, c_scale, notes, dur, delay, i, k + 1)
    ELSE LET te == token_events(t_idx, prog, c_scale, notes[k], A.time_pos,
                                dur, delay, i, k - 1)
         IN  IF te.raised THEN [A EXCEPT !.raised = TRUE]
             ELSE riff_timeline([A EXCEPT !.events = @ \o te.events,
                                          !.time_pos = @ + dur],
                                t_idx, prog, c_scale, notes, dur, delay, i, k + 1)

\* strum_delay with every phrase staggered
strum_delay_always(riff) == StrumDelay

\* strum_delay with no phrase staggered
strum_delay_never(riff) == 0

\* delay = 0.03 if strum else 0
strum_delay(riff) == IF riff.strum THEN StrumDelay ELSE 0

\* the loop over the cards of track t from card i on
RECURSIVE track_timeline(_, _, _)
track_timeline(A, t, i) ==
    IF A.raised \/ i > CardsPerTrack THEN A
    ELSE LET riff  == cards[<<t, i>>].riff
             notes == heap[riff.notes]
         IN  IF notes = <<>> THEN track_timeline(A, t, i + 1)  \* continue
             ELSE track_timeline(
                      riff_timeline(A, t - 1, tracks[t].inst, tracks[t].c_combo,
                                    notes, get_duration(riff.duration),
                                    strum_delay(riff),
                                    i - 1, 1),
                      t, i + 1)

\* the loop over self.tracks from track t on; M = [events, time_pos, raised],
\* time_pos keeping each track's final cursor
RECURSIVE song_timeline(_, _)
song_timeline(M, t) ==
    IF M.raised \/ t > Len(tracks) THEN M
    ELSE LET A == track_timeline([events |-> <<>>, time_pos |-> 0,
                                  raised |-> FALSE], t, 1)
         IN  song_timeline([events   |-> M.events \o A.events,
                            time_pos |-> Append(M.time_pos, A.time_pos),
                            raised   |-> A.raised], t + 1)

\* CardWriterApp.export_midi, the user having chosen a path: nothing is written
\* when midi_from_str raises
export_midi ==
    LET M == song_timeline([events |-> <<>>, time_pos |-> <<>>,
                            raised |-> FALSE], 1)
    IN  /\ midi' = IF M.raised THEN midi
                   ELSE [written |-> TRUE, events |-> M.events,
                         time_pos |-> M.time_pos]
        /\ Ran("export_midi", <<>>, M.raised)
        /\ UNCHANGED <<tracks, cards, song_data, heap, editors, global_bpm,
                       current_card, call>>

\* ------------------------------------------------------------------------
\*  CardWriterApp: preview (preview_midi, _play_midi)
\* ------------------------------------------------------------------------

\* the events timeline assembly gives for the tracks and cards as they are
Timeline ==
    song_timeline([events |-> <<>>, time_pos |-> <<>>, raised |-> FALSE], 1).events

\* CardWriterApp.preview_midi: a thread is started on _play_midi, which holds
\* no lock.  t, i: the card the thread reads next (i = 0: the head of track
\* t); seen: the timelines of the states the application has been in since
\* the thread started, each step of either thread adding that of the state
\* it starts in
preview_midi ==
    /\ ~player.running
    /\ player' = [running |-> TRUE, done |-> FALSE, t |-> 1, i |-> 0,
                  prog |-> 0, c_scale |-> 0, events |-> <<>>, time_pos |-> 0,
                  seen |-> {Timeline}]
    /\ Ran("preview_midi", <<>>, FALSE)
    /\ UNCHANGED <<tracks, cards, song_data, heap, editors, global_bpm,
                   current_card, midi, call, gimp>>

\* the thread's statements for the card <<t, i>> it reads next: one
\* iteration of a loop of _play_midi, between two switches of thread
play_card ==
    LET t    == player.t
        i    == player.i
        riff == cards[<<t, i>>].riff
        A    == riff_timeline([events |-> player.events,
                               time_pos |-> player.time_pos,
                               raised |-> FALSE],
                              t - 1, player.prog, player.c_scale,
                              heap[riff.notes], get_duration(riff.duration),
                              strum_delay(riff), i - 1, 1)
        next == IF i = CardsPerTrack THEN [t |-> t + 1, i |-> 0]
                ELSE [t |-> t, i |-> i + 1]
    IN  IF A.raised            \* except Exception: showerror
        THEN [player EXCEPT !.running = FALSE, !.seen = @ \cup {Timeline}]
        ELSE [player EXCEPT !.t = next.t, !.i = next.i,
                            !.events = A.events, !.time_pos = A.time_pos,
                            !.seen = @ \cup {Timeline}]

\* one step of the thread running _play_midi
play_step ==
    /\ player.running
    /\ player' =
           IF player.t > Len(tracks)                   \* midi.writeFile(tf)
           THEN [player EXCEPT !.running = FALSE, !.done = TRUE,
                               !.seen = @ \cup {Timeline}]
           ELSE IF player.i = 0
           THEN [player EXCEPT !.prog = tracks[player.t].inst,
                               !.c_scale = tracks[player.t].c_combo,
                               !.time_pos = 0,
                               !.i = 1,
                               !.seen = @ \cup {Timeline}]
           ELSE play_card
    /\ UNCHANGED <<tracks, cards, song_data, heap, editors, global_bpm,
                   current_card, midi, last, steps, call, gimp>>

\* ------------------------------------------------------------------------
\*  MidiWriterApp (src/midigimp.py): the list of riffs
\* ------------------------------------------------------------------------

\* a plausible slip: the check of the subnote's length is left out
gimp_valid_first_two(notes) ==
    \A k \in 1..Len(notes) :
        UpperStr(notes[k]) # <<"R">> =>
            \A j \in 1..Len(SplitPlus(notes[k])) :
                LET sub == SplitPlus(notes[k])[j]
                IN  /\ sub # <<>>
                    /\ Upper(sub[1]) \in {"A", "B", "C", "D", "E", "F", "G"}
                    /\ Len(sub) > 1 => Lower(sub[2]) \in {"#", "b", "%"}

\* the checks of _save_or_update_riff on notes_str.split(): every subnote of
\* an element that is not R has a letter of ABCDEFG, at most one modifier
\* character, of # b %; (sub[0] of an empty subnote raises IndexError, which
\* ends the handler as a failed check does)
gimp_valid(notes) ==
    \A k \in 1..Len(notes) :
        UpperStr(notes[k]) # <<"R">> =>
            \A j \in 1..Len(SplitPlus(notes[k])) :
                LET sub == SplitPlus(notes[k])[j]
                IN  /\ sub # <<>>
                    /\ Upper(sub[1]) \in {"A", "B", "C", "D", "E", "F", "G"}
                    /\ Len(sub) > 1 => Lower(sub[2]) \in {"#", "b", "%"}
                    /\ Len(sub) <= 2

\* MidiWriterApp._save_or_update_riff with txt in notes_entry, on app record G
save_or_update_riff(G, add_new, txt) ==
    LET notes == SplitBlank(txt)
        riff  == [id |-> G.made + 1, notes |-> notes, duration |-> G.duration,
                  octave |-> G.octave, instrument |-> G.instrument]
        \* riff_desc, by its parts
        desc  == [notes_str |-> Strip(txt), duration |-> G.duration,
                  octave |-> G.octave, instrument |-> G.instrument]
    IN  IF notes = <<>> \/ ~gimp_valid(notes)          \* showerror; return
        THEN [G EXCEPT !.ok = FALSE]
        ELSE IF add_new \/ G.editing_index = None
        THEN [G EXCEPT !.riffs = Append(@, riff),
                       !.song_list = Append(@, desc), !.made = @ + 1,
                       !.form = "hidden", !.ok = TRUE]
        ELSE IF G.editing_index + 1 > Len(G.riffs)     \* IndexError
        THEN [G EXCEPT !.ok = FALSE]
        ELSE [G EXCEPT !.riffs[G.editing_index + 1] = riff,
                       !.song_list[G.editing_index + 1] = desc,
                       !.made = @ + 1, !.editing_index = None,
                       !.form = "hidden", !.ok = TRUE]

\* MidiWriterApp.add_new_riff: the New Riff button, disabled while the input
\* frame is shown
add_new_riff ==
    /\ gimp.form = "hidden"
    /\ gimp' = [gimp EXCEPT !.editing_index = None, !.form = "add",
                            !.duration = "4s", !.octave = 4, !.instrument = 0,
                            !.op = "add_new_riff", !.ok = TRUE]

\* MidiWriterApp.save_riff: the input frame's button while it reads Add Riff
gimp_save_riff(txt) ==
    /\ gimp.form = "add"
    /\ Len(gimp.riffs) < MaxRiffs
    /\ gimp' = [save_or_update_riff(gimp, TRUE, txt) EXCEPT !.op = "save_riff",
                                                            !.read = txt]

\* MidiWriterApp.update_riff: the input frame's button while it reads Update
\* Riff
update_riff(txt) ==
    /\ gimp.form = "edit"
    /\ gimp' = [save_or_update_riff(gimp, FALSE, txt) EXCEPT !.op = "update_riff",
                                                             !.read = txt]

\* MidiWriterApp.edit_riff with the list's selection sel (None: nothing is
\* selected, curselection()[0] raises IndexError)
edit_riff(sel) ==
    gimp' = IF sel = None
            THEN [gimp EXCEPT !.op = "edit_riff", !.ok = FALSE]
            ELSE [gimp EXCEPT !.editing_index = sel,
                              !.form = "edit",
                              !.duration = gimp.riffs[sel + 1].duration,
                              !.octave = gimp.riffs[sel + 1].octave,
                              !.instrument = gimp.riffs[sel + 1].instrument,
                              !.selected = gimp.riffs[sel + 1].id,
                              !.op = "edit_riff", !.ok = TRUE]

\* MidiWriterApp.delete_riff with the list's selection sel
delete_riff(sel) ==
    gimp' = IF sel = None
            THEN [gimp EXCEPT !.op = "delete_riff", !.ok = FALSE]
            ELSE [gimp EXCEPT !.riffs = SubSeq(@, 1, sel)
                                        \o SubSeq(@, sel + 2, Len(@)),
                              !.song_list = SubSeq(@, 1, sel)
                                            \o SubSeq(@, sel + 2, Len(@)),
                              !.op = "delete_riff", !.ok = TRUE]

\* get_duration of midigimp.py, in thousandths of a beat
gimp_get_duration(value) ==
    IF value = "1s" THEN 4000
    ELSE IF value = "2" THEN 2000
    ELSE IF value = "4s" THEN 1000
    ELSE IF value = "8s" THEN 500
    ELSE IF value = "16s" THEN 250
    ELSE IF value = "32s" THEN 125
    ELSE 1000

\* pitches = [get_midi_note(sub, riff['octave']) for sub in sub_notes]
group_pitches(note_group, octave) ==
    [j \in 1..Len(SplitPlus(note_group)) |->
        get_midi_note(SplitPlus(note_group)[j], octave)]

\* the loop over riff['notes'] of export_midi and _play_preview, from
\* element k on: a rest moves the time position, the pitches of another
\* element are added at the time position
RECURSIVE riff_notes(_, _, _)
riff_notes(A, riff, k) ==
    IF A.raised \/ k > Len(riff.notes) THEN A
    ELSE LET dur == gimp_get_duration(riff.duration)
             ps  == group_pitches(riff.notes[k], riff.octave)
         IN  IF UpperStr(riff.notes[k]) = <<"R">>
             THEN riff_notes([A EXCEPT !.time_pos = @ + dur], riff, k + 1)
             ELSE IF \E j \in 1..Len(ps) : ps[j] = Raised
             THEN [A EXCEPT !.raised = TRUE]
             ELSE riff_notes(
                      [A EXCEPT !.notes = @ \o [j \in 1..Len(ps) |->
                                                 [pitch |-> ps[j],
                                                  time  |-> A.time_pos]],
                                !.time_pos = @ + dur],
                      riff, k + 1)

\* for riff in self.riffs, from riff i on
RECURSIVE song_notes(_, _, _)
song_notes(A, riffs, i) ==
    IF A.raised \/ i > Len(riffs) THEN A
    ELSE song_notes(riff_notes(A, riffs[i], 1), riffs, i + 1)

\* MidiWriterApp.export_midi (the file name and BPM entries hold their
\* defaults)
gimp_export_midi ==
    gimp' = IF gimp.riffs = <<>>
            THEN [gimp EXCEPT !.op = "export_midi", !.ok = FALSE]
            ELSE LET A == song_notes(NoNotes, gimp.riffs, 1)
                 IN  [gimp EXCEPT !.exported = A,
                                  !.op = "export_midi", !.ok = ~A.raised]

\* MidiWriterApp.preview_riffs: starts the thread unless there are no riffs
\* or a thread is alive
preview_riffs ==
    gimp' = IF gimp.riffs = <<>> \/ gimp.preview.alive
            THEN [gimp EXCEPT !.op = "preview_riffs", !.ok = FALSE]
            ELSE [gimp EXCEPT !.preview = [NoPreview EXCEPT !.alive = TRUE],
                              !.op = "preview_riffs", !.ok = TRUE]

\* the thread running MidiWriterApp._play_preview: one round of its loop
\* over self.riffs, which the handlers change meanwhile; after the loop, or
\* on an exception, the thread ends
play_preview ==
    /\ gimp.preview.alive
    /\ LET pv == gimp.preview
       IN  gimp' = IF pv.i < Len(gimp.riffs) /\ ~pv.out.raised
                   THEN [gimp EXCEPT !.preview =
                            [alive |-> TRUE, i |-> pv.i + 1,
                             out   |-> riff_notes(pv.out, gimp.riffs[pv.i + 1], 1)]]
                   ELSE [gimp EXCEPT !.preview = NoPreview, !.played = pv.out]

\* ------------------------------------------------------------------------
\*  Documents
\* ------------------------------------------------------------------------

\* one phrase record of the persistence format
Phrase(notes, duration, c_scale, strum) ==
    [notes |-> notes, duration |-> duration, c_scale |-> c_scale, strum |-> strum]

EmptyPhrase(c_scale) == Phrase(<<>>, "4s", c_scale, FALSE)

ChordCEG == <<"C", "+", "E", "+", "G">>

ChordDFsA == <<"D", "+", "F", "#", "+", "A">>

\* a saved song: phrases of several durations and anchors, a strummed chord
\* before a rest, an unknown duration code, a drum track
DocA ==
    [bpm    |-> 90,
     tracks |-> <<
        << Phrase(<<<<"C">>, <<"R">>, <<"E", "+", "G">>>>, "4s", 60, FALSE),
           Phrase(<<ChordCEG, <<"R">>>>, "8s", 60, TRUE),
           EmptyPhrase(60) >>,
        << Phrase(<<ChordDFsA>>, "2", 72, TRUE),
           Phrase(<<<<"r">>, <<"B", "b">>>>, "16s", 72, FALSE),
           Phrase(<<<<"G">>>>, "3s", 72, FALSE) >>,
        << EmptyPhrase(48), EmptyPhrase(48), EmptyPhrase(48) >>,
        << [notes |-> <<<<"K">>, <<"S", "+", "H">>>>, duration |-> "32s",
            c_scale |-> 60, strum |-> FALSE, instrument |-> 35],
           EmptyPhrase(60),
           Phrase(<<<<"K">>>>, "1s", 60, FALSE) >> >>]

\* the documents the user opens
SongDocs == {DocA}

\* a track of a document: one phrase record and two empty phrases
DocTrack(p) == <<p, EmptyPhrase(60), EmptyPhrase(60)>>

\* a document whose second phrase of track 1 has no "notes"
DocNoNotes ==
    [bpm    |-> 100,
     tracks |-> << << Phrase(<<<<"D">>>>, "8s", 72, TRUE),
                      [duration |-> "8s", c_scale |-> 72, strum |-> FALSE],
                      EmptyPhrase(72) >>,
                   DocTrack(EmptyPhrase(60)),
                   DocTrack(EmptyPhrase(60)),
                   DocTrack(EmptyPhrase(60)) >>]

\* a document whose first phrase has no "duration" and no "strum"
DocNoDuration ==
    [bpm    |-> 100,
     tracks |-> << DocTrack([notes |-> <<<<"D">>>>, c_scale |-> 72]),
                   DocTrack(EmptyPhrase(60)),
                   DocTrack(EmptyPhrase(60)),
                   DocTrack(EmptyPhrase(60)) >>]

\* a document of two tracks, the second of two phrases
DocTwoTracks ==
    [bpm    |-> 100,
     tracks |-> << DocTrack(Phrase(<<<<"D">>>>, "8s", 72, TRUE)),
                   <<EmptyPhrase(60), Phrase(<<<<"E">>>>, "2", 60, FALSE)>> >>]

\* the documents the user opens where loading is checked: one that matches
\* the schema and three that do not
LoadDocs == {DocA, DocNoNotes, DocNoDuration, DocTwoTracks}

\* the cards the user works on where documents are checked: one of the
\* initial tracks and one of the first added track
DocCards == {<<1, 1>>, <<InitTracks + 1, 1>>}

\* the duration table's codes, and one code it does not hold
DurationCodes == {"1s", "2", "4s", "8s", "16s", "32s", "3s"}

\* a document whose first track holds the two given phrases, the rest empty
TwoPhraseDoc(p1, p2) ==
    [bpm    |-> 120,
     tracks |-> << << p1, p2, EmptyPhrase(p1.c_scale) >>,
                   << EmptyPhrase(60), EmptyPhrase(60), EmptyPhrase(60) >>,
                   << EmptyPhrase(60), EmptyPhrase(60), EmptyPhrase(60) >>,
                   << EmptyPhrase(60), EmptyPhrase(60), EmptyPhrase(60) >> >>]

\* the documents timeline assembly is checked on: every duration code, strum
\* on and off, rests before and after single notes and chords
AssembleDocs ==
    { TwoPhraseDoc(Phrase(n1, d1, a, s1), Phrase(n2, d2, a, s2)) :
        n1 \in { <<<<"C">>, <<"R">>, <<"E", "+", "G">>>>,
                 <<ChordCEG, <<"R">>>>,
                 <<ChordDFsA, <<"B", "b">>>>,
                 <<<<"R">>>> },
        d1 \in DurationCodes, s1 \in BOOLEAN,
        n2 \in { <<<<"r">>, ChordCEG>>, <<<<"A">>>> },
        d2 \in DurationCodes, s2 \in BOOLEAN,
        a  \in {48, 60} }

\* ------------------------------------------------------------------------
\*  Calls of the note helpers
\* ------------------------------------------------------------------------

Letters == {"C", "D", "E", "F", "G", "A", "B"}

\* a letter alone, with a sharp, with a flat (written b or B)
NoteStrs == {<<l>> : l \in Letters} \cup {<<l, "#">> : l \in Letters}
            \cup {<<l, "b">> : l \in Letters} \cup {<<l, "B">> : l \in Letters}

\* scale anchors: the C-Scale combobox values
Anchors == COptions

\* octaves of midigimp's octave_options
Octaves == 2..7

call_midi_from_str(s, a) ==
    /\ call' = [fn |-> "midi_from_str", note |-> s, arg |-> a,
                ret |-> midi_from_str(s, a)]
    /\ UNCHANGED <<tracks, cards, song_data, heap, editors, global_bpm,
                   current_card, midi, last, steps, player, gimp>>

call_get_midi_note(s, o) ==
    /\ call' = [fn |-> "get_midi_note", note |-> s, arg |-> o,
                ret |-> get_midi_note(s, o)]
    /\ UNCHANGED <<tracks, cards, song_data, heap, editors, global_bpm,
                   current_card, midi, last, steps, player, gimp>>

call_staff_pos(l, a) ==
    /\ call' = [fn |-> "staff_pos", note |-> <<l>>, arg |-> a,
                ret |-> staff_pos(l, a)]
    /\ UNCHANGED <<tracks, cards, song_data, heap, editors, global_bpm,
                   current_card, midi, last, steps, player, gimp>>

call_get_staff_position(l, o) ==
    /\ call' = [fn |-> "get_staff_position", note |-> <<l>>, arg |-> o,
                ret |-> get_staff_position(l, o)]
    /\ UNCHANGED <<tracks, cards, song_data, heap, editors, global_bpm,
                   current_card, midi, last, steps, player, gimp>>

\* ------------------------------------------------------------------------
\*  Specifications
\* ------------------------------------------------------------------------

\* a counted handler
Counted(A) ==
    steps < MaxOps /\ steps' = steps + 1 /\ A /\ UNCHANGED <<player, gimp>>

\* a handler that is not counted
Free(A) == A /\ UNCHANGED <<steps, player, gimp>>

UserTracks == {c[1] : c \in UserCards}

Next ==
    \/ \E c \in UserCards, inp \in SaveInputs :
           Counted(save_riff(c, inp[1], inp[2]))
    \/ \E c \in UserCards, g \in GrokRiffs : Counted(grokify(c, g))
    \/ \E c \in UserCards : Counted(p2p_edit(c))
    \/ \E e \in 1..MaxEditors, x \in ClickXs, y \in ClickYs :
           Counted(on_click(e, x, y))
    \/ \E e \in 1..MaxEditors : Counted(done(e))
    \/ \E c \in UserCards : Free(undo(c))
    \/ \E c \in UserCards : Free(redo(c))
    \/ Counted(app_undo)
    \/ Counted(app_redo)
    \/ \E t \in UserTracks, v \in CScaleInputs : Counted(update_c_scale(t, v))
    \/ Counted(new_song)
    \/ \E doc \in SongDocs : Counted(open_song(doc))
    \/ Counted(export_midi)

\* the card editor: CardWriterApp with its cards, editors, documents, export
Spec == Init /\ [][Next]_vars

NextAssemble ==
    \/ steps = 0 /\ \E doc \in AssembleDocs : Counted(open_song(doc))
    \/ Counted(export_midi)

\* timeline assembly over one opened document out of AssembleDocs
SpecAssemble == Init /\ [][NextAssemble]_vars

NextHelpers ==
    \/ \E s \in NoteStrs, a \in Anchors : call_midi_from_str(s, a)
    \/ \E s \in NoteStrs, o \in Octaves : call_get_midi_note(s, o)
    \/ \E l \in Letters, a \in Anchors : call_staff_pos(l, a)
    \/ \E l \in Letters, o \in Octaves : call_get_staff_position(l, o)

\* the note helpers, called on every note string and anchor of the inputs
SpecHelpers == Init /\ [][NextHelpers]_vars

NextDocs ==
    \/ Counted(add_new_track)
    \/ \E c \in DocCards \cap DOMAIN cards :
           Counted(save_riff(c, TxtNoteRestChord, FALSE))
    \/ \E c \in DocCards \cap DOMAIN cards : Free(undo(c))
    \/ \E c \in DocCards \cap DOMAIN cards : Free(redo(c))
    \/ Counted(new_song)
    \/ \E doc \in LoadDocs : Counted(open_song(doc))

\* tracks are added, cards edited, and the document replaced by a new or a
\* loaded one
SpecDocs == Init /\ [][NextDocs]_vars

\* a counted handler of the UI thread while the preview thread may run
Observed(A) ==
    /\ steps < MaxOps
    /\ steps' = steps + 1
    /\ A
    /\ player' = IF player.running
                 THEN [player EXCEPT !.seen = @ \cup {Timeline}]
                 ELSE player
    /\ UNCHANGED gimp

\* a card's undo or redo while the preview thread may run
ObservedFree(A) ==
    /\ A
    /\ player' = IF player.running
                 THEN [player EXCEPT !.seen = @ \cup {Timeline}]
                 ELSE player
    /\ UNCHANGED <<steps, gimp>>

\* the cards the user works on while a preview runs
PlayCards == {<<1, 1>>, <<1, 2>>}

NextPlay ==
    \/ steps < MaxOps /\ steps' = steps + 1 /\ preview_midi
    \/ play_step
    \/ \E c \in PlayCards : Observed(save_riff(c, TxtNoteRestChord, FALSE))
    \/ \E c \in PlayCards : ObservedFree(undo(c))
    \/ \E c \in PlayCards : ObservedFree(redo(c))
    \/ Observed(update_c_scale(1, 72))
    \/ Observed(new_song)
    \/ Observed(open_song(DocA))

\* the UI thread's handlers interleaved with the preview thread
SpecPlay == Init /\ [][NextPlay]_vars

\* texts of MidiWriterApp's notes entry: a note, a chord, a rest and a
\* lower-case note, nothing, an unknown letter, a rest in a chord, an empty
\* subnote, two modifiers, an unknown modifier
GimpTexts == {<<"C">>, <<"D", "#", "+", "F">>, <<"R", " ", "g", "%">>,
              <<" ">>, <<"X">>, <<"C", "+", "R">>, <<"C", "+">>,
              <<"C", "#", "b">>, <<"C", "x">>}

\* selections of MidiWriterApp's list: none, or the index of one of its rows
GimpSelections == {None} \cup (0..(Len(gimp.riffs) - 1))

\* a handler of MidiWriterApp
GimpStep(A) ==
    /\ steps < MaxGimpOps
    /\ steps' = steps + 1
    /\ A
    /\ UNCHANGED <<tracks, cards, song_data, heap, editors, global_bpm,
                   current_card, midi, last, call, player>>

NextGimp ==
    \/ GimpStep(add_new_riff)
    \/ \E txt \in GimpTexts : GimpStep(gimp_save_riff(txt))
    \/ \E txt \in GimpTexts : GimpStep(update_riff(txt))
    \/ \E sel \in GimpSelections : GimpStep(edit_riff(sel))
    \/ \E sel \in GimpSelections : GimpStep(delete_riff(sel))
    \/ GimpStep(gimp_export_midi)
    \/ GimpStep(preview_riffs)
    \/ GimpStep(play_preview)

\* MidiWriterApp: riffs are added, edited, updated and deleted
SpecGimp == Init /\ [][NextGimp]_vars

NextEntry ==
    \/ \E c \in UserCards, txt \in EntryInputs, sv \in BOOLEAN :
           Counted(save_riff(c, txt, sv))
    \/ \E c \in UserCards : Free(undo(c))
    \/ \E c \in UserCards : Free(redo(c))
    \/ Counted(export_midi)

\* one card takes whatever text is typed, and the song is exported
SpecEntry == Init /\ [][NextEntry]_vars

\* ------------------------------------------------------------------------
\*  Claims: edit history (specification Spec)
\* ------------------------------------------------------------------------

\* this step is RiffCard.undo of card c
Undoes(c) == last'.op = "undo" /\ last'.card = c

\* this step is RiffCard.redo of card c
Redoes(c) == last'.op = "redo" /\ last'.card = c

\* after this step, snapshot snap is the current state of card record n: the
\* riff holds every value of the snapshot, the list of notes is the
\* snapshot's with the content it had, the widgets show the snapshot
IsCurrent(n, snap) ==
    /\ \A k \in DOMAIN snap : k \in DOMAIN n.riff /\ n.riff[k] = snap[k]
    /\ heap'[snap.notes] = heap[snap.notes]
    /\ n.entry = snap.text
    /\ n.strum_var = snap.strum

\* C1: with the undo stack <<S0, S1, S2>>, undo makes S1 current and leaves
\* <<S0, S1>>; with <<S0, S1>>, undo makes S0 current and leaves <<S0>>; with
\* <<S0>>, undo changes neither the card's state nor its stacks; redo then
\* makes the entry undone last (S1) current again and puts it back on the
\* undo stack.
C1_UndoRedoScenario ==
    [][\A c \in DOMAIN cards :
          LET h == cards[c].history
              r == cards[c].redo_stack
              n == cards'[c]
          IN  /\ (Undoes(c) /\ Len(h) = 3) =>
                    /\ IsCurrent(n, h[2])
                    /\ n.history = <<h[1], h[2]>>
                    /\ n.redo_stack = Append(r, h[3])
              /\ (Undoes(c) /\ Len(h) = 2) =>
                    /\ IsCurrent(n, h[1])
                    /\ n.history = <<h[1]>>
                    /\ n.redo_stack = Append(r, h[2])
              /\ (Undoes(c) /\ Len(h) = 1) =>
                    /\ n = cards[c]
                    /\ heap' = heap
              /\ (Redoes(c) /\ Len(h) = 1 /\ r # <<>>) =>
                    /\ IsCurrent(n, r[Len(r)])
                    /\ n.history = <<h[1], r[Len(r)]>>
                    /\ n.redo_stack = SubSeq(r, 1, Len(r) - 1)
      ]_vars

\* C1's case: three snapshots of different notes were taken, two were undone,
\* and redo has just brought S1 back from a stack <<S0>> with two redo entries
C1_Witness ==
    \E c \in DOMAIN cards :
        /\ last.op = "redo" /\ last.card = c /\ ~last.noop
        /\ last.hist = 1 /\ last.redo = 2
        /\ Len(cards[c].history) = 2 /\ Len(cards[c].redo_stack) = 1
        /\ heap[cards[c].history[1].notes] # heap[cards[c].history[2].notes]
        /\ heap[cards[c].redo_stack[1].notes] # heap[cards[c].history[2].notes]
        /\ heap[cards[c].riff.notes] = heap[cards[c].history[2].notes]

\* this step is an edit of card c through handler op
Edits(c) ==
    /\ last'.op \in {"save_riff", "grokify", "done"}
    /\ last'.card = c
    /\ ~last'.noop

\* the step before this one was an edit of card c
Edited(c) ==
    /\ last.op \in {"save_riff", "grokify", "done"}
    /\ last.card = c
    /\ ~last.noop

\* C2: after an edit of a card (save_riff, grokify, the commit of a point and
\* click session) the top of the undo stack holds the notes the phrase had
\* before the edit, and the first undo after the edit is not a no-op: it
\* restores exactly those notes.
C2_FirstUndoRestoresPreEdit ==
    [][\A c \in DOMAIN cards :
          LET h == cards[c].history
              n == cards'[c]
          IN  /\ (Edits(c) /\ last'.op # "done") =>
                    /\ n.history # <<>>
                    /\ n.history[Len(n.history)].notes = cards[c].riff.notes
              /\ (Edited(c) /\ Undoes(c)) =>
                    /\ ~last'.noop
                    /\ h # <<>>
                    /\ heap'[n.riff.notes] = heap[h[Len(h)].notes]
      ]_vars

\* C3: a handler that calls save_state once (save_riff, p2p_edit) appends
\* exactly one entry to the card's undo stack, grokify (which calls it twice)
\* two, and each leaves the redo stack empty; a redo that follows is a no-op.
C3_SnapshotAppendsAndClearsRedo ==
    [][\A c \in DOMAIN cards :
          LET h == cards[c].history
              n == cards'[c]
          IN  /\ (last'.op \in {"save_riff", "p2p_edit"} /\ last'.card = c) =>
                    /\ Len(n.history) = Len(h) + 1
                    /\ SubSeq(n.history, 1, Len(h)) = h
                    /\ n.redo_stack = <<>>
              /\ (last'.op = "grokify" /\ last'.card = c) =>
                    /\ Len(n.history) = Len(h) + 2
                    /\ SubSeq(n.history, 1, Len(h)) = h
                    /\ n.redo_stack = <<>>
              /\ (last.op \in {"save_riff", "p2p_edit", "grokify"}
                  /\ last.card = c /\ Redoes(c)) =>
                    /\ last'.noop
                    /\ n = cards[c]
      ]_vars

\* C3's case: a snapshot was taken while redo entries were pending, and the
\* redo stack is empty after it
C3_Witness ==
    \E c \in DOMAIN cards :
        /\ last.op \in {"save_riff", "p2p_edit", "grokify"}
        /\ last.card = c
        /\ last.redo > 0
        /\ cards[c].redo_stack = <<>>
        /\ Len(cards[c].history) = last.hist + 1

\* C4: undo on a card whose undo stack has 0 or 1 entries and redo on a card
\* whose redo stack is empty change neither the card (phrase, widgets, both
\* stacks) nor the notes nor the song data; and no undo removes the first
\* entry of a non-empty undo stack.
C4_UnderflowIsNoOp ==
    [][\A c \in DOMAIN cards :
          LET h == cards[c].history
              r == cards[c].redo_stack
              n == cards'[c]
          IN  /\ (Undoes(c) /\ Len(h) <= 1) =>
                    n = cards[c] /\ heap' = heap /\ song_data' = song_data
              /\ (Redoes(c) /\ r = <<>>) =>
                    n = cards[c] /\ heap' = heap /\ song_data' = song_data
              /\ (Undoes(c) /\ Len(h) >= 1) =>
                    Len(n.history) >= 1 /\ n.history[1] = h[1]
      ]_vars

\* C4's case: undo has just run on a card whose undo stack holds the baseline
\* only, and the baseline is still there
C4_Witness ==
    \E c \in DOMAIN cards :
        /\ last.op = "undo" /\ last.card = c /\ last.noop
        /\ last.hist = 1
        /\ Len(cards[c].history) = 1
        /\ cards[c].redo_stack # <<>>

\* what a snapshot records, its list of notes read in heap hp
Recorded(hp, snap) ==
    [notes    |-> hp[snap.notes],
     duration |-> snap.duration,
     c_scale  |-> snap.c_scale,
     strum    |-> snap.strum]

Exported == last.op = "export_midi" /\ ~last.noop /\ midi.written

\* beatLength of the duration code of card i of track t
BeatLength(t, i) == get_duration(cards[<<t, i>>].riff.duration)

\* the tokens of card i of track t
Tokens(t, i) == heap[cards[<<t, i>>].riff.notes]

\* the sum, over the cards of track t before card i, of beatLength times the
\* card's token count
RECURSIVE BeatsBefore(_, _)
BeatsBefore(t, i) ==
    IF i <= 1 THEN 0
    ELSE BeatsBefore(t, i - 1) + BeatLength(t, i - 1) * Len(Tokens(t, i - 1))

\* the cursor value formed by the tokens before token k of card i of track t
CursorAt(t, i, k) == BeatsBefore(t, i) + BeatLength(t, i) * (k - 1)

\* the cursor value at the token event e comes from
CursorOf(e) == CursorAt(e.track + 1, e.card + 1, e.token + 1)

\* the phrase event e comes from has its strum flag set
Strummed(e) == cards[<<e.track + 1, e.card + 1>>].riff.strum

\* the events of the file
Events == {midi.events[n] : n \in 1..Len(midi.events)}

\* the tokens of the song: track, card, token (1-based)
TokenIds ==
    UNION {{<<c[1], c[2], k>> : k \in 1..Len(Tokens(c[1], c[2]))} :
              c \in DOMAIN cards}

\* the rest tokens
Rests == {w \in TokenIds : UpperStr(Tokens(w[1], w[2])[w[3]]) = <<"R">>}

\* event e sounds within the beat window of rest token w of its track
SoundsIn(e, w) ==
    /\ e.track + 1 = w[1]
    /\ e.time < CursorAt(w[1], w[2], w[3]) + BeatLength(w[1], w[2])
    /\ CursorAt(w[1], w[2], w[3]) < e.time + e.duration

\* the final cursor of every track is the sum of beatLength times token count
\* over its phrases
FinalCursors ==
    \A t \in 1..Len(tracks) : midi.time_pos[t] = BeatsBefore(t, CardsPerTrack + 1)

\* C6 as stated: the cursor after the last token of every track is the sum
\* over its phrases of beatLength(duration) times the token count, and every
\* event starts at the cursor value formed by the tokens before its token.
C6_EventsStartAtCursor ==
    Exported => /\ FinalCursors
                /\ \A e \in Events : e.time = CursorOf(e)

\* C6, amended: the cursor advances once per token, rest or not, so the
\* cursor after the last token of every track is the sum over its phrases of
\* beatLength(duration) times the token count; an event starts at the cursor
\* value formed by the tokens before its token, plus, in a phrase whose strum
\* flag is set, 0.03 beats times the subnote's position in its chord.
C6_CursorPerToken ==
    Exported => /\ FinalCursors
                /\ \A e \in Events :
                       e.time = CursorOf(e)
                                + (IF Strummed(e) THEN StrumDelay * e.sub ELSE 0)

\* C6's case: a strummed chord of the second phrase, after a rest and the
\* tokens of a first phrase of another duration, has an event that starts
\* after the cursor
C6_Witness ==
    /\ Exported
    /\ BeatLength(1, 1) # BeatLength(1, 2)
    /\ \E e \in Events :
           /\ e.card = 1 /\ e.token = 1 /\ e.sub = 2
           /\ CursorOf(e) > 0
           /\ e.time > CursorOf(e)
    /\ \E w \in Rests : w[1] = 1 /\ w[2] = 1

\* C7 as stated: a rest token emits no event, and no event sounds within the
\* beat window of a rest token of its track, strum on or off.
C7_NoEventInRestWindow ==
    Exported => /\ \A e \in Events :
                       <<e.track + 1, e.card + 1, e.token + 1>> \notin Rests
                /\ \A e \in Events : \A w \in Rests : ~SoundsIn(e, w)

\* C7, amended: a rest token emits no event, and the only events that sound
\* within the beat window of a rest token of their track are the staggered
\* subnotes (second and later) of a chord, in a phrase whose strum flag is
\* set, that comes before that rest; with strum off no event does.
C7_RestWindowOnlyStaggered ==
    Exported => /\ \A e \in Events :
                       <<e.track + 1, e.card + 1, e.token + 1>> \notin Rests
                /\ \A e \in Events : \A w \in Rests :
                       SoundsIn(e, w) =>
                           /\ Strummed(e)
                           /\ e.sub >= 1
                           /\ CursorOf(e) < CursorAt(w[1], w[2], w[3])

\* C7's case: a strummed chord followed by a rest, whose staggered subnotes
\* sound within the rest's window while its first subnote does not
C7_Witness ==
    /\ Exported
    /\ \E w \in Rests : \E e, f \in Events :
           /\ e.card + 1 = w[2] /\ e.token + 2 = w[3] /\ e.sub = 1
           /\ SoundsIn(e, w)
           /\ f.card = e.card /\ f.token = e.token /\ f.sub = 0
           /\ ~SoundsIn(f, w)

\* the tokens of three subnotes in phrases whose strum flag is set: track,
\* card, token (1-based)
StrummedTriads ==
    {w \in TokenIds :
        /\ Len(SplitPlus(Tokens(w[1], w[2])[w[3]])) = 3
        /\ cards[<<w[1], w[2]>>].riff.strum}

\* the event of subnote j (0-based) of token w, if there is one
EventsOf(w, j) ==
    {e \in Events : /\ <<e.track + 1, e.card + 1, e.token + 1>> = w
                    /\ e.sub = j}

\* C8: for a chord of 3 subnotes in a phrase with strum enabled, whatever the
\* duration code, each subnote has one event, the 2nd and 3rd start strictly
\* after the 1st and strictly before the 1st's start plus beatLength(duration),
\* and each of the three events has length beatLength(duration).
C8_StrumOffsetsWithinChord ==
    Exported =>
        \A w \in StrummedTriads :
            /\ \A j \in 0..2 : Cardinality(EventsOf(w, j)) = 1
            /\ \A e \in EventsOf(w, 0) : \A j \in 1..2 : \A f \in EventsOf(w, j) :
                   /\ e.time < f.time
                   /\ f.time < e.time + BeatLength(w[1], w[2])
            /\ \A j \in 0..2 : \A e \in EventsOf(w, j) :
                   e.duration = BeatLength(w[1], w[2])

\* C8's case: strummed chords of 3 subnotes in phrases of the shortest
\* duration code and of the longest
C8_Witness ==
    /\ Exported
    /\ \E w, v \in StrummedTriads :
           /\ cards[<<w[1], w[2]>>].riff.duration = "32s"
           /\ cards[<<v[1], v[2]>>].riff.duration = "1s"
           /\ \E e \in EventsOf(w, 2) :
                  e.time = CursorAt(w[1], w[2], w[3]) + 2 * StrumDelay

\* ------------------------------------------------------------------------
\*  Claims: note helpers (specification SpecHelpers)
\* ------------------------------------------------------------------------

\* semitones of a letter above C
LetterSemitone(l) ==
    CASE l = "C" -> 0 [] l = "D" -> 2 [] l = "E" -> 4 [] l = "F" -> 5
      [] l = "G" -> 7 [] l = "A" -> 9 [] l = "B" -> 11

\* the shift of the accidental of note string s
AccidentalShift(s) ==
    IF Len(s) = 1 THEN 0 ELSE IF s[2] = "#" THEN 1 ELSE -1

\* C9: for every letter C..B, every accidental (sharp, flat, none) and every
\* scale anchor, midi_from_str returns anchor + ((letterSemitone +
\* accidentalShift) mod 12), a pitch of [anchor, anchor + 12); with anchor 60,
\* C gives 60, C# gives 61 and Cb gives 71.  get_midi_note does the same with
\* the anchor (octave + 1) * 12.
C9_PitchWithinAnchorOctave ==
    LET anchor == IF call.fn = "midi_from_str" THEN call.arg
                  ELSE (call.arg + 1) * 12
    IN  call.fn \in {"midi_from_str", "get_midi_note"} =>
            /\ call.ret = anchor + ((LetterSemitone(call.note[1])
                                     + AccidentalShift(call.note)) % 12)
            /\ call.ret >= anchor
            /\ call.ret < anchor + 12
            /\ (call.fn = "midi_from_str" /\ call.arg = 60) =>
                   /\ call.note = <<"C">> => call.ret = 60
                   /\ call.note = <<"C", "#">> => call.ret = 61
                   /\ call.note = <<"C", "b">> => call.ret = 71

\* C9's case: midi_from_str has resolved Cb at anchor 60 to 71, an accidental
\* that would leave the anchor's octave without the reduction
C9_Witness ==
    /\ call.fn = "midi_from_str"
    /\ call.note = <<"C", "b">>
    /\ call.arg = 60
    /\ call.ret = 71

\* C10: staff_pos of letter C with scale anchor 60 is 0 and with scale anchor
\* 72 is 7.
C10_StaffPosOfC ==
    (call.fn = "staff_pos" /\ call.note = <<"C">>) =>
        /\ call.arg = 60 => call.ret = 0
        /\ call.arg = 72 => call.ret = 7

\* the diatonic index of a letter
DiatonicIndex(l) ==
    CASE l = "C" -> 0 [] l = "D" -> 1 [] l = "E" -> 2 [] l = "F" -> 3
      [] l = "G" -> 4 [] l = "A" -> 5 [] l = "B" -> 6

\* C11: for every letter L of C..B and every scale anchor, staff_pos(L,
\* anchor) is diatonicIndex[L] + (anchor div 12 - 4) * 7, with diatonicIndex
\* C=0, D=1, E=2, F=3, G=4, A=5, B=6: the letters of one octave take seven
\* consecutive positions.
C11_StaffPosDiatonic ==
    call.fn = "staff_pos" =>
        call.ret = DiatonicIndex(call.note[1]) + ((call.arg \div 12) - 4) * 7

\* ------------------------------------------------------------------------
\*  Claims: saving, loading and the document (specification Spec)
\* ------------------------------------------------------------------------

\* some element of notes has a subnote whose letter is not A-G, not a drum
\* letter, the element not being a lone R
Unrecognized(notes) ==
    \E k \in 1..Len(notes) :
        /\ UpperStr(notes[k]) # <<"R">>
        /\ \E j \in 1..Len(SplitPlus(notes[k])) :
               LET sub == SplitPlus(notes[k])[j]
               IN  /\ sub # <<>>
                   /\ Upper(sub[1]) \notin Letters \cup DOMAIN DRUM_MAP

\* C12: RiffCard.save_riff on a text with an element of unrecognized letter
\* changes nothing: the notes the phrase stores, the song data and both
\* history stacks of the card are what they were before the attempt.
C12_InvalidSaveChangesNothing ==
    [][\A c \in DOMAIN cards :
          (/\ last'.op = "save_riff" /\ last'.card = c
           /\ Unrecognized(SplitBlank(cards'[c].entry))) =>
              /\ heap'[cards'[c].riff.notes] = heap[cards[c].riff.notes]
              /\ song_data' = song_data
              /\ cards'[c].history = cards[c].history
              /\ cards'[c].redo_stack = cards[c].redo_stack
      ]_vars

\* a stored phrase has a chord element one of whose subnotes is R
RestInChord(notes) ==
    \E k \in 1..Len(notes) :
        /\ Len(SplitPlus(notes[k])) > 1
        /\ \E j \in 1..Len(SplitPlus(notes[k])) :
               UpperStr(SplitPlus(notes[k])[j]) = <<"R">>

\* C13: in every reachable state no phrase of a card stores a chord element
\* one of whose subnotes is R (so no subnote of a chord resolves to None when
\* the timeline is assembled).
C13_NoRestInChord ==
    \A c \in DOMAIN cards : ~RestInChord(heap[cards[c].riff.notes])

\* the subnote event e comes from
SubnoteOf(e) == SplitPlus(Tokens(e.track + 1, e.card + 1)[e.token + 1])[e.sub + 1]

\* C14: each event of the exported timeline that comes from a non-drum note
\* of a phrase has its pitch in [c_scale, c_scale + 12) of that phrase.
C14_PitchInPhraseAnchor ==
    Exported =>
        \A e \in Events :
            Upper(SubnoteOf(e)[1]) \notin DOMAIN DRUM_MAP =>
                LET a == cards[<<e.track + 1, e.card + 1>>].riff.c_scale
                IN  e.pitch >= a /\ e.pitch < a + 12

\* C15: after new_song or open_song every card of every track, the added
\* tracks included, has an empty undo stack and an empty redo stack.
C15_HistoryClearedOnNewOrOpen ==
    last.op \in {"new_song", "open_song"} =>
        \A c \in DOMAIN cards :
            cards[c].history = <<>> /\ cards[c].redo_stack = <<>>

\* the documents of LoadDocs that do not match the persistence schema
IncompleteDocs == {DocNoNotes, DocNoDuration, DocTwoTracks}

\* C16: open_song on a document that does not match the persistence schema
\* leaves the song data, every card (its phrase and both history stacks), the
\* notes and the BPM as they were before the call.
C16_FailedLoadChangesNothing ==
    [][\A doc \in IncompleteDocs :
          open_song(doc) =>
              /\ song_data' = song_data
              /\ cards' = cards
              /\ \A c \in DOMAIN cards :
                     heap'[cards'[c].riff.notes] = heap[cards[c].riff.notes]
              /\ global_bpm' = global_bpm
      ]_vars

\* ------------------------------------------------------------------------
\*  Claims: preview thread (specification SpecPlay)
\* ------------------------------------------------------------------------

\* C17: the event list the preview thread has assembled when it finishes is
\* the timeline of the phrases as they were at one instant between its start
\* and its end, whatever UI-thread handlers ran in between.
C17_PreviewReadsOneInstant ==
    player.done => player.events \in player.seen

\* ------------------------------------------------------------------------
\*  Claims: duration table (specification SpecAssemble)
\* ------------------------------------------------------------------------

\* the codes of the duration table
TableCodes == {"1s", "2", "4s", "8s", "16s", "32s"}

\* the beats (in thousandths) the duration table gives a code, 1 beat for a
\* code it does not hold
TableBeats(code) ==
    IF code \notin TableCodes THEN 1000
    ELSE IF code = "1s" THEN 4 * 1000
    ELSE IF code = "2" THEN 2 * 1000
    ELSE IF code = "4s" THEN 1000
    ELSE IF code = "8s" THEN 1000 \div 2
    ELSE IF code = "16s" THEN 1000 \div 4
    ELSE 1000 \div 8

\* the duration code of card i of track t
CodeOf(t, i) == cards[<<t, i>>].riff.duration

\* the sum, over the cards of track t before card i, of the table's beats
\* times the card's token count
RECURSIVE TableBeatsBefore(_, _)
TableBeatsBefore(t, i) ==
    IF i <= 1 THEN 0
    ELSE TableBeatsBefore(t, i - 1)
         + TableBeats(CodeOf(t, i - 1)) * Len(Tokens(t, i - 1))

\* C18: get_duration maps 1s, 2, 4s, 8s, 16s, 32s to 4, 2, 1, 0.5, 0.25, 0.125
\* beats and every other code to 1, and never raises: the export of a loaded
\* document whose phrases have any of these codes or an unknown one writes
\* its file, every event having the length and every track the end the table
\* gives, a quarter note per token for the unknown code.
C18_DurationTableTotal ==
    last.op = "export_midi" =>
        /\ Exported
        /\ \A e \in Events :
               e.duration = TableBeats(CodeOf(e.track + 1, e.card + 1))
        /\ \A t \in 1..Len(tracks) :
               midi.time_pos[t] = TableBeatsBefore(t, CardsPerTrack + 1)

\* C18's case: a loaded document with a phrase of an unknown code and a phrase
\* of the shortest code has been exported, with events of 1 beat and of 0.125
C18_Witness ==
    /\ Exported
    /\ \E e, f \in Events :
           /\ CodeOf(e.track + 1, e.card + 1) \notin TableCodes
           /\ e.duration = 1000
           /\ CodeOf(f.track + 1, f.card + 1) = "32s"
           /\ f.duration = 125

\* ------------------------------------------------------------------------
\*  Claims: undo then redo (specification Spec)
\* ------------------------------------------------------------------------

\* C19: for a card whose undo stack has at least two entries, undo followed
\* immediately by redo leaves the phrase's notes, duration, scale anchor and
\* strum flag, the undo stack and the redo stack as they were before the undo.
C19_UndoRedoIdentity ==
    [][\A c \in DOMAIN cards :
          (/\ last.op = "undo" /\ last.card = c /\ last.hist >= 2
           /\ Redoes(c)) =>
              LET riff == cards'[c].riff
              IN  /\ Len(cards'[c].history) = last.hist
                  /\ Len(cards'[c].redo_stack) = last.redo
                  /\ heap'[riff.notes] = last.was.notes
                  /\ riff.duration = last.was.duration
                  /\ riff.c_scale = last.was.c_scale
                  /\ riff.strum = last.was.strum
      ]_vars

\* ------------------------------------------------------------------------
\*  Claims: MidiWriterApp's list of riffs (specification SpecGimp)
\* ------------------------------------------------------------------------

\* C20: when update_riff succeeds after edit_riff selected a riff, the riff
\* replaced is the one the user selected and every other riff of the list is
\* unchanged, whatever delete_riff calls came in between.
C20_UpdateReplacesSelected ==
    [][(gimp'.op = "update_riff" /\ gimp'.ok) =>
          /\ Len(gimp'.riffs) = Len(gimp.riffs)
          /\ \A k \in 1..Len(gimp.riffs) :
                 IF gimp.riffs[k].id = gimp.selected
                 THEN gimp'.riffs[k].id = gimp'.made
                 ELSE gimp'.riffs[k] = gimp.riffs[k]
      ]_vars


\* the phrase the document holds for slot c: song_data[t][i] is either the
\* card's own riff dict or a dict of its own
Stored(c) ==
    LET el == song_data[c[1]][c[2]]
        d  == IF el.alias THEN cards[c].riff ELSE el.dict
    IN  [notes |-> heap[d.notes], duration |-> d.duration,
         c_scale |-> d.c_scale, strum |-> d.strum]

\* the current phrase of card c
Current(c) ==
    [notes |-> heap[cards[c].riff.notes], duration |-> cards[c].riff.duration,
     c_scale |-> cards[c].riff.c_scale, strum |-> cards[c].riff.strum]

\* C21: in every reachable state, for every track t and slot i, the document
\* entry song_data[t][i] that save_song writes has the same notes, duration,
\* c_scale and strum as the current riff of card (t, i).
C21_DocumentReflectsPhrases ==
    \A c \in DOMAIN cards :
        (c[1] <= Len(song_data) /\ c[2] <= Len(song_data[c[1]])) =>
            Stored(c) = Current(c)


\* an element of a riff as the grammar has it: a lone R, or subnotes joined
\* by +, each a letter A-G with at most one modifier of # b % (in either
\* case)
WellFormed(el) ==
    \/ UpperStr(el) = <<"R">>
    \/ \A j \in 1..Len(SplitPlus(el)) :
           LET sub == SplitPlus(el)[j]
           IN  /\ Len(sub) \in {1, 2}
               /\ Upper(sub[1]) \in Letters
               /\ Len(sub) = 2 => Lower(sub[2]) \in {"#", "b", "%"}

\* the loop that added these notes met no exception and no null pitch
Sound(A) ==
    /\ ~A.raised
    /\ \A n \in 1..Len(A.notes) :
           A.notes[n].pitch # None /\ A.notes[n].pitch # Raised

\* the text a save read does not pass validation
IllFormed(txt) ==
    \/ SplitBlank(txt) = <<>>
    \/ \E k \in 1..Len(SplitBlank(txt)) : ~WellFormed(SplitBlank(txt)[k])

\* C22: in every reachable state of MidiWriterApp every element of every
\* riff of self.riffs is a lone R or '+'-joined subnotes of a letter A-G
\* and at most one modifier of # b %; export and preview meet no exception
\* and no null pitch from get_midi_note; and a save or update whose text
\* fails validation leaves self.riffs and the list box as they were.
C22_OnlyValidRiffsStored ==
    /\ [](/\ \A i \in 1..Len(gimp.riffs) :
                \A k \in 1..Len(gimp.riffs[i].notes) :
                    WellFormed(gimp.riffs[i].notes[k])
          /\ Sound(gimp.exported)
          /\ Sound(gimp.preview.out)
          /\ Sound(gimp.played))
    /\ [][(gimp'.op \in {"save_riff", "update_riff"} /\ IllFormed(gimp'.read)) =>
              /\ gimp'.riffs = gimp.riffs
              /\ gimp'.song_list = gimp.song_list
              /\ ~gimp'.ok
         ]_vars

\* a riff with a rest and a note is stored, a later save was rejected for
\* its text, the preview thread has added a note and export_midi has just
\* written the song
C22_Witness ==
    /\ gimp.op = "export_midi" /\ gimp.ok
    /\ gimp.exported.notes # <<>>
    /\ gimp.preview.alive /\ gimp.preview.out.notes # <<>>
    /\ IllFormed(gimp.read) /\ SplitBlank(gimp.read) # <<>>
    /\ \E i \in 1..Len(gimp.riffs) :
           \E k \in 1..Len(gimp.riffs[i].notes) :
               UpperStr(gimp.riffs[i].notes[k]) = <<"R">>


=============================================================================
